---- MODULE Spec2Model ----
(***************************************************************************)
(* Deployment utilities of pkg/util/deployment: classification of a        *)
(* Deployment's replication controllers into new and old, adoption of a    *)
(* controller template (rollback), the count of available pods, and the    *)
(* revision annotation.                                                    *)
(***************************************************************************)
EXTENDS Integers, Sequences, FiniteSets, Bags, TLC

VARIABLES
    deployment,       \* the Deployment handed to the classifier
    podList,          \* what the injected getPodList returns on success
    rcList,           \* the controllers: what getRcList returns, the rcs
                      \* handed to GetAvailablePodsForRCs and to Revision
    clusterPods,      \* the pods the client lists from
    minReadySeconds,  \* the argument of GetAvailablePodsForRCs
    adopted,          \* the controller whose template was last adopted
    result            \* what the last call returned

vars == <<deployment, podList, rcList, clusterPods, minReadySeconds, adopted, result>>

(***************************************************************************)
(* Bounds of the model.                                                    *)
(***************************************************************************)
MaxPods == 2
MaxRCs == 2
HashMod == 2
MaxMinReady == 1
MaxLen == 3

(***************************************************************************)
(* Strings as sequences of one-character strings, and decimal formatting.  *)
(***************************************************************************)
DigitChars == <<"0", "1", "2", "3", "4", "5", "6", "7", "8", "9">>

RECURSIVE Sprintf_d(_)
\* fmt.Sprintf("%d", n) for n >= 0
Sprintf_d(n) ==
    IF n < 10 THEN DigitChars[n + 1]
    ELSE Sprintf_d(n \div 10) \o DigitChars[(n % 10) + 1]

(***************************************************************************)
(* Label maps are functions from a finite set of keys to values.           *)
(***************************************************************************)
AppKey == "app"
HashKey == "pod-template-hash"

NoLabels == [k \in {} |-> ""]

Label(k, v) == [x \in {k} |-> v]

\* labels.SelectorFromSet(sel).Matches(labels.Set(lbls)): every pair of the
\* selector is a pair of the labels; the empty selector matches everything.
SelectorMatches(sel, lbls) ==
    \A k \in DOMAIN sel : k \in DOMAIN lbls /\ lbls[k] = sel[k]

\* labelsutil.CloneAndAddLabel
CloneAndAddLabel(lbls, labelKey, labelValue) ==
    IF labelKey = "" THEN lbls
    ELSE [k \in DOMAIN lbls \cup {labelKey} |->
            IF k = labelKey THEN Sprintf_d(labelValue) ELSE lbls[k]]

\* labelsutil.CloneAndRemoveLabel
CloneAndRemoveLabel(lbls, labelKey) ==
    IF labelKey = "" THEN lbls
    ELSE [k \in DOMAIN lbls \ {labelKey} |-> lbls[k]]

(***************************************************************************)
(* Pod templates: [labels, spec].  A controller holds a pointer to a       *)
(* template, modelled as a sequence of length 0 (nil) or 1.                *)
(***************************************************************************)
Code(s) ==
    CASE s = "x" -> 1
      [] s = "y" -> 2
      [] s = "0" -> 3
      [] s = "1" -> 4
      [] s = "2" -> 5
      [] s = "v1" -> 6
      [] s = "v2" -> 9
      [] s = AppKey -> 1
      [] s = HashKey -> 2
      [] OTHER -> 7

RECURSIVE SumLabels(_, _)
SumLabels(lbls, keys) ==
    IF keys = {} THEN 0
    ELSE LET k == CHOOSE x \in keys : TRUE
         IN  Code(k) * Code(lbls[k]) + SumLabels(lbls, keys \ {k})

\* podutil.GetPodTemplateSpecHash: a deterministic hash of the template's
\* whole content into a finite range (collisions happen).
GetPodTemplateSpecHash(template) ==
    (Code(template.spec) + SumLabels(template.labels, DOMAIN template.labels)) % HashMod

GetNewRCTemplate(d) ==
    LET newRCTemplate == [labels |-> d.template.labels, spec |-> d.template.spec]
    IN  [newRCTemplate EXCEPT !.labels =
            CloneAndAddLabel(d.template.labels, d.uniqueLabelKey,
                             GetPodTemplateSpecHash(newRCTemplate))]

\* api.Semantic.DeepEqual(rc.Spec.Template, &newRCTemplate)
DeepEqualTemplate(ptr, template) == ptr = <<template>>

\* the adoption without the removal of the unique label
SetFromRCTemplateKeepLabel(d, template) ==
    [d EXCEPT !.template = [labels |-> template.labels, spec |-> template.spec]]

SetFromRCTemplateOp(d, template) ==
    [d EXCEPT !.template =
        [labels |-> CloneAndRemoveLabel(template.labels, d.uniqueLabelKey),
         spec   |-> template.spec]]

(***************************************************************************)
(* Go maps keyed by controller name, kept as sequences of entries.         *)
(***************************************************************************)
\* a slice appended to on every assignment, in place of a map
MapPutAppend(m, key, value) == Append(m, [key |-> key, value |-> value])

MapPut(m, key, value) ==
    IF \E i \in 1..Len(m) : m[i].key = key
    THEN [i \in 1..Len(m) |->
            IF m[i].key = key THEN [key |-> key, value |-> value] ELSE m[i]]
    ELSE Append(m, [key |-> key, value |-> value])

RECURSIVE MapValues(_)
\* the slice built by ranging over the map; its order is unspecified, so it
\* is kept as a bag
MapValues(m) ==
    IF m = <<>> THEN EmptyBag
    ELSE SetToBag({Head(m).value}) (+) MapValues(Tail(m))

(***************************************************************************)
(* GetOldRCsFromLists                                                      *)
(***************************************************************************)
ListOptions(d) == [namespace |-> d.namespace, selector |-> d.selector]

RECURSIVE RCLoopNoFilter(_, _, _, _, _)
\* the inner loop without the test that skips the new controller
RCLoopNoFilter(maps, pod, rcs, newRCTemplate, j) ==
    IF j > Len(rcs) THEN maps
    ELSE LET rc == rcs[j]
             all == MapPut(maps.allOldRCs, rc.name, rc)
             old == IF SelectorMatches(rc.selector, pod.labels)
                    THEN MapPut(maps.oldRCs, rc.name, rc)
                    ELSE maps.oldRCs
         IN  RCLoopNoFilter([oldRCs |-> old, allOldRCs |-> all],
                            pod, rcs, newRCTemplate, j + 1)

RECURSIVE RCLoop(_, _, _, _, _)
\* the inner loop over rcList for one pod, from index j
RCLoop(maps, pod, rcs, newRCTemplate, j) ==
    IF j > Len(rcs) THEN maps
    ELSE LET rc == rcs[j]
         IN  IF DeepEqualTemplate(rc.template, newRCTemplate)
             THEN RCLoop(maps, pod, rcs, newRCTemplate, j + 1)
             ELSE LET all == MapPut(maps.allOldRCs, rc.name, rc)
                      old == IF SelectorMatches(rc.selector, pod.labels)
                             THEN MapPut(maps.oldRCs, rc.name, rc)
                             ELSE maps.oldRCs
                  IN  RCLoop([oldRCs |-> old, allOldRCs |-> all],
                             pod, rcs, newRCTemplate, j + 1)

RECURSIVE PodLoop(_, _, _, _, _)
\* the outer loop over podList.Items, from index i
PodLoop(maps, pods, rcs, newRCTemplate, i) ==
    IF i > Len(pods) THEN maps
    ELSE PodLoop(RCLoop(maps, pods[i], rcs, newRCTemplate, 1),
                 pods, rcs, newRCTemplate, i + 1)

NoError == "nil"
ErrListingPods == "error listing pods"
ErrListingRCs == "error listing replication controllers"

\* podResp and rcResp are what the injected listing functions return:
\* [err |-> BOOLEAN, items |-> sequence]
GetOldRCsFromListsOp(d, podResp, rcResp) ==
    LET podCall == [fn |-> "getPodList", options |-> ListOptions(d),
                    failed |-> podResp.err]
        rcCall == [fn |-> "getRcList", options |-> ListOptions(d),
                   failed |-> rcResp.err]
    IN  IF podResp.err
        THEN [op |-> "GetOldRCsFromLists", err |-> ErrListingPods, requiredRCs |-> EmptyBag,
              allRCs |-> EmptyBag, calls |-> <<podCall>>]
        ELSE IF rcResp.err
        THEN [op |-> "GetOldRCsFromLists", err |-> ErrListingRCs, requiredRCs |-> EmptyBag,
              allRCs |-> EmptyBag, calls |-> <<podCall, rcCall>>]
        ELSE LET maps == PodLoop([oldRCs |-> <<>>, allOldRCs |-> <<>>],
                                 podResp.items, rcResp.items,
                                 GetNewRCTemplate(d), 1)
             IN  [op |-> "GetOldRCsFromLists", err |-> NoError,
                  requiredRCs |-> MapValues(maps.oldRCs),
                  allRCs |-> MapValues(maps.allOldRCs),
                  calls |-> <<podCall, rcCall>>]

(***************************************************************************)
(* GetNewRCFromList                                                        *)
(***************************************************************************)
RECURSIVE LastMatch(_, _, _)
\* a loop that keeps going after a match and returns the last one
LastMatch(rcs, newRCTemplate, i) ==
    IF i > Len(rcs) THEN <<>>
    ELSE LET later == LastMatch(rcs, newRCTemplate, i + 1)
         IN  IF later # <<>> THEN later
             ELSE IF DeepEqualTemplate(rcs[i].template, newRCTemplate) THEN <<rcs[i]>>
             ELSE <<>>

RECURSIVE FirstMatch(_, _, _)
\* the loop over rcList: the first controller whose template equals the
\* desired one, as a pointer (a sequence of length 0 or 1)
FirstMatch(rcs, newRCTemplate, i) ==
    IF i > Len(rcs) THEN <<>>
    ELSE IF DeepEqualTemplate(rcs[i].template, newRCTemplate) THEN <<rcs[i]>>
    ELSE FirstMatch(rcs, newRCTemplate, i + 1)

GetNewRCFromListOp(d, rcResp) ==
    LET rcCall == [fn |-> "getRcList", options |-> ListOptions(d),
                   failed |-> rcResp.err]
    IN  IF rcResp.err
        THEN [op |-> "GetNewRCFromList", err |-> ErrListingRCs, rc |-> <<>>, calls |-> <<rcCall>>]
        ELSE [op |-> "GetNewRCFromList", err |-> NoError,
              rc |-> FirstMatch(rcResp.items, GetNewRCTemplate(d), 1),
              calls |-> <<rcCall>>]

(***************************************************************************)
(* GetAvailablePodsForRCs                                                  *)
(***************************************************************************)
\* clock ticks per second: time.Duration(minReadySeconds) * time.Second
Second == 2

\* the zero value of unversioned.Time; every real instant is later
ZeroTime == 0
IsZero(t) == t = ZeroTime

PodReady == "Ready"
ConditionTrue == "True"

\* api.IsPodReady: the pod's Ready condition has status True
IsPodReady(pod) ==
    \E i \in 1..Len(pod.conditions) :
        /\ pod.conditions[i].type = PodReady
        /\ pod.conditions[i].status = ConditionTrue
        /\ \A j \in 1..(i - 1) : pod.conditions[j].type # PodReady

\* time.Time.Add and time.Time.Before
TimeAdd(t, d) == t + d
Before(t, u) == t < u

\* the test without the minReadySeconds <= 0 case
ReadyConditionValidAlwaysTimed(c, minReady, now) ==
    /\ ~IsZero(c.lastTransitionTime)
    /\ Before(TimeAdd(c.lastTransitionTime, minReady * Second), now)

\* the test without the check that the transition time is set
ReadyConditionValidUnsetTime(c, minReady, now) ==
    \/ minReady <= 0
    \/ Before(TimeAdd(c.lastTransitionTime, minReady * Second), now)

\* the test with the end of the grace period included
ReadyConditionValidInclusive(c, minReady, now) ==
    \/ minReady <= 0
    \/ /\ ~IsZero(c.lastTransitionTime)
       /\ ~Before(now, TimeAdd(c.lastTransitionTime, minReady * Second))

\* the test of line 187 on one condition
ReadyConditionValid(c, minReady, now) ==
    \/ minReady <= 0
    \/ /\ ~IsZero(c.lastTransitionTime)
       /\ Before(TimeAdd(c.lastTransitionTime, minReady * Second), now)

RECURSIVE ConditionLoop(_, _, _, _)
\* the loop over pod.Status.Conditions from index i: 1 when the pod is
\* counted (and the loop breaks), 0 when the loop runs out
ConditionLoop(conds, minReady, now, i) ==
    IF i > Len(conds) THEN 0
    ELSE IF conds[i].type = PodReady /\ ReadyConditionValid(conds[i], minReady, now)
    THEN 1
    ELSE ConditionLoop(conds, minReady, now, i + 1)

RECURSIVE getReadyPodsCount(_, _, _)
getReadyPodsCount(pods, minReady, now) ==
    IF pods = <<>> THEN 0
    ELSE (IF IsPodReady(Head(pods))
          THEN ConditionLoop(Head(pods).conditions, minReady, now, 1)
          ELSE 0)
         + getReadyPodsCount(Tail(pods), minReady, now)

\* c.Core().Pods(namespace).List(options): the pods of the namespace whose
\* labels the selector matches
ListPods(pods, namespace, selector) ==
    SelectSeq(pods, LAMBDA p :
        p.namespace = namespace /\ SelectorMatches(selector, p.labels))

RECURSIVE getPodsForRCs(_, _, _, _, _)
\* the loop over replicationControllers from index i; the listing of the
\* failAt-th controller fails (0: none fails)
getPodsForRCs(pods, rcs, failAt, i, acc) ==
    IF i > Len(rcs) THEN [allPods |-> acc.allPods, err |-> NoError, calls |-> acc.calls]
    ELSE LET call == [fn |-> "Pods.List",
                      options |-> [namespace |-> rcs[i].namespace,
                                   selector |-> rcs[i].selector],
                      failed |-> i = failAt]
         IN  IF i = failAt
             THEN [allPods |-> acc.allPods, err |-> ErrListingPods,
                   calls |-> Append(acc.calls, call)]
             ELSE getPodsForRCs(pods, rcs, failAt, i + 1,
                     [allPods |-> acc.allPods \o
                                  ListPods(pods, rcs[i].namespace, rcs[i].selector),
                      calls |-> Append(acc.calls, call)])

\* whether the call reads the clock: time.Now() is evaluated only for a
\* Ready condition of a ready pod with a set transition time, minReady > 0
ReadsClock(pods, minReady) ==
    /\ minReady > 0
    /\ \E i \in 1..Len(pods) :
          /\ IsPodReady(pods[i])
          /\ \E j \in 1..Len(pods[i].conditions) :
                /\ pods[i].conditions[j].type = PodReady
                /\ ~IsZero(pods[i].conditions[j].lastTransitionTime)

\* the count of the pods listed before the failure, returned with the error
GetAvailablePodsForRCsPartial(pods, rcs, minReady, failAt, now) ==
    LET listed == getPodsForRCs(pods, rcs, failAt, 1, [allPods |-> <<>>, calls |-> <<>>])
    IN  [op |-> "GetAvailablePodsForRCs",
         count |-> getReadyPodsCount(listed.allPods, minReady, now),
         err |-> listed.err, calls |-> listed.calls,
         clock |-> IF ReadsClock(listed.allPods, minReady) THEN <<now>> ELSE <<>>]

GetAvailablePodsForRCsOp(pods, rcs, minReady, failAt, now) ==
    LET listed == getPodsForRCs(pods, rcs, failAt, 1, [allPods |-> <<>>, calls |-> <<>>])
    IN  IF listed.err # NoError
        THEN [op |-> "GetAvailablePodsForRCs", count |-> 0, err |-> listed.err,
              calls |-> listed.calls, clock |-> <<>>]
        ELSE [op |-> "GetAvailablePodsForRCs",
              count |-> getReadyPodsCount(listed.allPods, minReady, now),
              err |-> NoError, calls |-> listed.calls,
              clock |-> IF ReadsClock(listed.allPods, minReady) THEN <<now>> ELSE <<>>]

(***************************************************************************)
(* Revision                                                                *)
(***************************************************************************)
RevisionAnnotation == "deployment.kubernetes.io/revision"

\* unsigned decimal numerals: sequences of digits 0..9 without leading zeros
DigitValue(c) == (CHOOSE i \in 1..10 : DigitChars[i] = c) - 1
IsDigit(c) == \E i \in 1..10 : DigitChars[i] = c

RECURSIVE BigNorm(_)
BigNorm(ds) == IF Len(ds) > 1 /\ Head(ds) = 0 THEN BigNorm(Tail(ds)) ELSE ds

RECURSIVE LexLess(_, _)
LexLess(a, b) ==
    IF a = <<>> THEN FALSE
    ELSE IF Head(a) # Head(b) THEN Head(a) < Head(b)
    ELSE LexLess(Tail(a), Tail(b))

BigLess(a, b) == Len(a) < Len(b) \/ (Len(a) = Len(b) /\ LexLess(a, b))

\* 1<<64 - 1 and 1<<63
MaxUint64 == <<1, 8, 4, 4, 6, 7, 4, 4, 0, 7, 3, 7, 0, 9, 5, 5, 1, 6, 1, 5>>
Cutoff63 == <<9, 2, 2, 3, 3, 7, 2, 0, 3, 6, 8, 5, 4, 7, 7, 5, 8, 0, 8>>
MaxInt64 == <<9, 2, 2, 3, 3, 7, 2, 0, 3, 6, 8, 5, 4, 7, 7, 5, 8, 0, 7>>

ErrSyntax == "invalid syntax"
ErrRange == "value out of range"

RECURSIVE ParseUintLoop(_, _, _)
\* strconv.ParseUint's loop, base 10, 64 bits: n is the value so far
ParseUintLoop(s, i, n) ==
    IF i > Len(s) THEN [n |-> n, err |-> NoError]
    ELSE IF ~IsDigit(s[i]) THEN [n |-> <<0>>, err |-> ErrSyntax]
    ELSE LET n1 == BigNorm(Append(n, DigitValue(s[i])))
         IN  IF BigLess(MaxUint64, n1) THEN [n |-> MaxUint64, err |-> ErrRange]
             ELSE ParseUintLoop(s, i + 1, n1)

ParseUint(s) ==
    IF Len(s) = 0 THEN [n |-> <<0>>, err |-> ErrSyntax]
    ELSE ParseUintLoop(s, 1, <<0>>)

\* an int64 is kept as a sign and a magnitude
Int64(neg, mag) == [neg |-> neg /\ mag # <<0>>, mag |-> mag]

\* strconv.ParseInt(s, 10, 64)
ParseInt(s) ==
    IF Len(s) = 0 THEN [value |-> Int64(FALSE, <<0>>), err |-> ErrSyntax]
    ELSE LET neg == s[1] = "-"
             rest == IF s[1] = "+" \/ s[1] = "-" THEN Tail(s) ELSE s
             un == ParseUint(rest)
         IN  IF un.err # NoError /\ un.err # ErrRange
             THEN [value |-> Int64(FALSE, <<0>>), err |-> un.err]
             ELSE IF ~neg /\ ~BigLess(un.n, Cutoff63)
             THEN [value |-> Int64(FALSE, MaxInt64), err |-> ErrRange]
             ELSE IF neg /\ BigLess(Cutoff63, un.n)
             THEN [value |-> Int64(TRUE, Cutoff63), err |-> ErrRange]
             ELSE [value |-> Int64(neg, un.n), err |-> NoError]

\* the lookup without the test of ok: a missing annotation is parsed as ""
RevisionOpIgnoresOk(rc) ==
    LET v == IF RevisionAnnotation \in DOMAIN rc.annotations
             THEN rc.annotations[RevisionAnnotation] ELSE <<>>
        r == ParseInt(v)
    IN  [op |-> "Revision", value |-> r.value, err |-> r.err]

RevisionOp(rc) ==
    IF RevisionAnnotation \notin DOMAIN rc.annotations
    THEN [op |-> "Revision", value |-> Int64(FALSE, <<0>>), err |-> NoError]
    ELSE LET r == ParseInt(rc.annotations[RevisionAnnotation])
         IN  [op |-> "Revision", value |-> r.value, err |-> r.err]

(***************************************************************************)
(* Inputs.                                                                 *)
(***************************************************************************)
SeqsUpTo(S, n) == UNION {[1..k -> S] : k \in 0..n}

RCName(i) == "rc-" \o Sprintf_d(i)

\* controller lists: names are unique within a namespace
Named(bodies) ==
    [i \in 1..Len(bodies) |->
        [name |-> RCName(i), namespace |-> bodies[i].namespace,
         selector |-> bodies[i].selector, template |-> bodies[i].template,
         annotations |-> bodies[i].annotations]]

\* inputs of the classifier
SpecValues == {"v1", "v2"}
HashValues == {"0"}

TemplateLabels ==
    {Label(AppKey, "x")} \cup
    {[k \in {AppKey, HashKey} |-> IF k = AppKey THEN "x" ELSE h] : h \in HashValues}

Templates == [labels : TemplateLabels, spec : SpecValues]

Deployments ==
    [namespace : {"default"}, selector : {Label(AppKey, "x")},
     template : Templates, uniqueLabelKey : {"", HashKey}]

Pods ==
    [namespace : {"default"},
     labels : {Label(AppKey, "x"), Label(AppKey, "y")},
     conditions : {<<>>}]

RCs ==
    [namespace : {"default"},
     selector : {Label(AppKey, "x"), Label(AppKey, "y")},
     template : {<<>>} \cup {<<t>> : t \in Templates},
     annotations : {NoLabels}]

\* inputs of the count of available pods
TransitionTime == 1
MaxNow == TransitionTime + MaxMinReady * Second + 1

Condition(type, status, time) ==
    [type |-> type, status |-> status, lastTransitionTime |-> time]

PodConditions ==
    { <<>>,
      <<Condition(PodReady, ConditionTrue, ZeroTime)>>,
      <<Condition(PodReady, ConditionTrue, TransitionTime)>>,
      <<Condition(PodReady, "False", TransitionTime)>>,
      <<Condition("PodScheduled", ConditionTrue, TransitionTime),
        Condition(PodReady, ConditionTrue, ZeroTime)>> }

ClusterPods ==
    [namespace : {"default"}, labels : {Label(AppKey, "x")}, conditions : PodConditions]
    \cup
    { [namespace |-> "default", labels |-> Label(AppKey, "y"),
       conditions |-> <<Condition(PodReady, ConditionTrue, TransitionTime)>>],
      [namespace |-> "other", labels |-> Label(AppKey, "x"),
       conditions |-> <<Condition(PodReady, ConditionTrue, TransitionTime)>>] }

CountedRCs ==
    { [namespace |-> "default", selector |-> Label(AppKey, "x"),
       template |-> <<>>, annotations |-> NoLabels],
      [namespace |-> "default", selector |-> NoLabels,
       template |-> <<>>, annotations |-> NoLabels],
      [namespace |-> "other", selector |-> Label(AppKey, "x"),
       template |-> <<>>, annotations |-> NoLabels] }

\* inputs of Revision: annotation values are sequences of characters
Chars == {"0", "7", "-", "+", "a"}

LongValues ==
    { <<"9","2","2","3","3","7","2","0","3","6","8","5","4","7","7","5","8","0","7">>,
      <<"9","2","2","3","3","7","2","0","3","6","8","5","4","7","7","5","8","0","8">>,
      <<"-","9","2","2","3","3","7","2","0","3","6","8","5","4","7","7","5","8","0","8">>,
      <<"-","9","2","2","3","3","7","2","0","3","6","8","5","4","7","7","5","8","0","9">>,
      <<"0","0","9","2","2","3","3","7","2","0","3","6","8","5","4","7","7","5","8","0","7">>,
      <<"9","9","9","9","9","9","9","9","9","9","9","9","9","9","9","9","9","9","9","9","9">> }

AnnotationValues == SeqsUpTo(Chars, MaxLen) \cup LongValues

Annotations ==
    {NoLabels, Label("owner", <<"7">>)}
    \cup {Label(RevisionAnnotation, v) : v \in AnnotationValues}
    \cup {[k \in {"owner", RevisionAnnotation} |->
             IF k = "owner" THEN <<"7">> ELSE v] : v \in AnnotationValues}

AnnotatedRCs ==
    [namespace : {"default"}, selector : {Label(AppKey, "x")},
     template : {<<>>}, annotations : Annotations]

IdleDeployment ==
    [namespace |-> "default", selector |-> Label(AppKey, "x"),
     template |-> [labels |-> Label(AppKey, "x"), spec |-> "v1"],
     uniqueLabelKey |-> HashKey]

NoResult == [op |-> "none"]
NotAdopted == <<>>

InitClassify ==
    /\ deployment \in Deployments
    /\ podList \in SeqsUpTo(Pods, MaxPods)
    /\ rcList \in {Named(b) : b \in SeqsUpTo(RCs, MaxRCs)}
    /\ clusterPods = <<>>
    /\ minReadySeconds = 0
    /\ result = NoResult
    /\ adopted = NotAdopted

InitAvailable ==
    /\ deployment = IdleDeployment
    /\ podList = <<>>
    /\ rcList \in {Named(b) : b \in SeqsUpTo(CountedRCs, MaxRCs)}
    /\ clusterPods \in SeqsUpTo(ClusterPods, MaxPods)
    /\ minReadySeconds \in -1..MaxMinReady
    /\ result = NoResult
    /\ adopted = NotAdopted

InitRevision ==
    /\ deployment = IdleDeployment
    /\ podList = <<>>
    /\ rcList \in {Named(<<b>>) : b \in AnnotatedRCs}
    /\ clusterPods = <<>>
    /\ minReadySeconds = 0
    /\ result = NoResult
    /\ adopted = NotAdopted

\* inputs on which every call has something to do: the listing functions
\* return the pods of the cluster
ListedPods ==
    { [namespace |-> "default", labels |-> Label(AppKey, "x"),
       conditions |-> <<Condition(PodReady, ConditionTrue, ZeroTime)>>],
      [namespace |-> "default", labels |-> Label(AppKey, "y"),
       conditions |-> <<>>] }

ListedRCs ==
    { [namespace |-> "default", selector |-> Label(AppKey, "x"),
       template |-> <<>>, annotations |-> NoLabels],
      [namespace |-> "default", selector |-> Label(AppKey, "x"),
       template |-> <<[labels |-> [k \in {AppKey, HashKey} |->
                                     IF k = AppKey THEN "x" ELSE "0"],
                       spec |-> "v2"]>>,
       annotations |-> Label(RevisionAnnotation, <<"7">>)],
      [namespace |-> "default", selector |-> Label(AppKey, "y"),
       template |-> <<[labels |-> Label(AppKey, "x"), spec |-> "v1"]>>,
       annotations |-> Label(RevisionAnnotation, <<"a">>)] }

Init ==
    /\ deployment \in Deployments
    /\ podList \in SeqsUpTo(ListedPods, MaxPods)
    /\ rcList \in {Named(b) : b \in SeqsUpTo(ListedRCs, MaxRCs)}
    /\ clusterPods = podList
    /\ minReadySeconds = 0
    /\ result = NoResult
    /\ adopted = NotAdopted

(***************************************************************************)
(* The calls.  result holds what the last call returned.                   *)
(***************************************************************************)
Response(failed, items) == [err |-> failed, items |-> items]

GetOldRCsFromLists ==
    \E podErr \in BOOLEAN, rcErr \in BOOLEAN :
        /\ result' = GetOldRCsFromListsOp(deployment,
                         Response(podErr, podList), Response(rcErr, rcList))
        /\ UNCHANGED <<deployment, podList, rcList, clusterPods, minReadySeconds, adopted>>

GetNewRCFromList ==
    \E rcErr \in BOOLEAN :
        /\ result' = GetNewRCFromListOp(deployment, Response(rcErr, rcList))
        /\ UNCHANGED <<deployment, podList, rcList, clusterPods, minReadySeconds, adopted>>

\* rollback: the template of a listed controller is adopted onto the
\* deployment, which is returned; the caller dereferences rc.Spec.Template,
\* so the controller has one
SetFromRCTemplate ==
    \E i \in 1..Len(rcList) :
        /\ rcList[i].template # <<>>
        /\ deployment' = SetFromRCTemplateOp(deployment, rcList[i].template[1])
        /\ adopted' = <<rcList[i]>>
        /\ result' = [op |-> "SetFromRCTemplate", deployment |-> deployment']
        /\ UNCHANGED <<podList, rcList, clusterPods, minReadySeconds>>

\* one listing may fail; now is what time.Now() returns during the call
GetAvailablePodsForRCs ==
    \E failAt \in 0..Len(rcList), now \in 1..MaxNow :
        /\ result' = GetAvailablePodsForRCsOp(clusterPods, rcList, minReadySeconds,
                                              failAt, now)
        /\ UNCHANGED <<deployment, podList, rcList, clusterPods, minReadySeconds, adopted>>

Revision ==
    \E i \in 1..Len(rcList) :
        /\ result' = RevisionOp(rcList[i])
        /\ UNCHANGED <<deployment, podList, rcList, clusterPods, minReadySeconds, adopted>>

NextClassify ==
    \/ GetOldRCsFromLists
    \/ GetNewRCFromList
    \/ SetFromRCTemplate

Next ==
    \/ GetOldRCsFromLists
    \/ GetNewRCFromList
    \/ SetFromRCTemplate
    \/ GetAvailablePodsForRCs
    \/ Revision

SpecClassify == InitClassify /\ [][NextClassify]_vars

SpecAvailable == InitAvailable /\ [][GetAvailablePodsForRCs]_vars

SpecRevision == InitRevision /\ [][Revision]_vars

Spec == Init /\ [][Next]_vars

(***************************************************************************)
(* Properties of the classifier.                                           *)
(***************************************************************************)
DesiredTemplate == GetNewRCTemplate(deployment)

IsOld(rc) == rc.template # <<DesiredTemplate>>

Listed == {rcList[i] : i \in 1..Len(rcList)}

MatchesSomePod(rc) ==
    \E j \in 1..Len(podList) : SelectorMatches(rc.selector, podList[j].labels)

ClassifyOk == result.op = "GetOldRCsFromLists" /\ result.err = NoError

FindNewOk == result.op = "GetNewRCFromList" /\ result.err = NoError

\* C1: whenever both listings succeed, the second result of classify is
\* exactly the set of listed controllers whose template differs from the
\* desired template, whatever the pod list (the empty one included).
C1_OldAllIsEveryOldController ==
    ClassifyOk => BagToSet(result.allRCs) = {rc \in Listed : IsOld(rc)}

NoTwoOfAName(bag) ==
    /\ \A rc \in BagToSet(bag) : CopiesIn(rc, bag) = 1
    /\ \A a, b \in BagToSet(bag) : a.name = b.name => a = b

\* C8: the first result of classify is exactly the set of old controllers
\* whose selector matches the labels of at least one listed pod, and neither
\* result holds two entries of the same name.
C8_OldWithPodsExactAndDeduplicated ==
    ClassifyOk =>
        /\ BagToSet(result.requiredRCs) =
               {rc \in Listed : IsOld(rc) /\ MatchesSomePod(rc)}
        /\ NoTwoOfAName(result.requiredRCs)
        /\ NoTwoOfAName(result.allRCs)

\* an old controller matched by two pods was classified
C8_Witness ==
    /\ ClassifyOk
    /\ \E rc \in BagToSet(result.requiredRCs) :
          Cardinality({j \in 1..Len(podList) :
                          SelectorMatches(rc.selector, podList[j].labels)}) >= 2
    /\ \E rc \in BagToSet(result.allRCs) : ~BagIn(rc, result.requiredRCs)

\* C3: classify and find_new on the same inputs form a partition: no
\* controller of either old set has the desired template, the controller
\* find_new returns is in neither, and old_with_pods is within old_all.
C3_ClassifyIsAPartition ==
    /\ ClassifyOk =>
          /\ \A rc \in BagToSet(result.allRCs) \cup BagToSet(result.requiredRCs) :
                /\ IsOld(rc)
                /\ <<rc>> # GetNewRCFromListOp(deployment, Response(FALSE, rcList)).rc
          /\ BagToSet(result.requiredRCs) \subseteq BagToSet(result.allRCs)
    /\ (FindNewOk /\ result.rc # <<>>) =>
          LET old == GetOldRCsFromListsOp(deployment, Response(FALSE, podList),
                                          Response(FALSE, rcList))
          IN  /\ ~BagIn(result.rc[1], old.allRCs)
              /\ ~BagIn(result.rc[1], old.requiredRCs)

\* classify returned old controllers while the list also holds the new one
C3_Witness ==
    /\ ClassifyOk
    /\ result.requiredRCs # EmptyBag
    /\ \E rc \in Listed : ~IsOld(rc)

MatchingIndexes == {i \in 1..Len(rcList) : rcList[i].template = <<DesiredTemplate>>}

\* C7: when the listing succeeds, find_new returns a controller iff some
\* listed controller's template equals the desired template, and then it
\* returns the first such controller in list order.
C7_FindNewReturnsFirstMatch ==
    FindNewOk =>
        IF MatchingIndexes = {} THEN result.rc = <<>>
        ELSE result.rc =
                <<rcList[CHOOSE i \in MatchingIndexes :
                            \A k \in MatchingIndexes : i <= k]>>

\* find_new chose among two controllers that both have the desired template
C7_Witness ==
    /\ FindNewOk
    /\ result.rc # <<>>
    /\ Cardinality(MatchingIndexes) >= 2

\* the templates without the unique label key whose fingerprinting under
\* the deployment's key gives the template of controller rc
FingerprintedFrom(rc) ==
    {t \in Templates :
        /\ deployment.uniqueLabelKey \notin DOMAIN t.labels
        /\ rc.template = <<GetNewRCTemplate([deployment EXCEPT !.template = t])>>}

AdoptionHolds(rc, t) ==
    /\ deployment.template = t
    /\ <<DesiredTemplate>> = rc.template
    /\ ClassifyOk => ~BagIn(rc, result.allRCs) /\ ~BagIn(rc, result.requiredRCs)
    /\ SetFromRCTemplateOp(deployment, rc.template[1]) = deployment

\* C10 as stated: after the template of controller R, fingerprinted from T
\* under key K, is adopted onto a deployment with key K, the deployment's
\* template is T, its desired template is R's again, find_new returns R,
\* classify does not report R as old, and adopting again changes nothing.
C10_RollbackFindNewReturnsR ==
    \A rc \in {adopted[i] : i \in 1..Len(adopted)} :
        \A t \in FingerprintedFrom(rc) :
            /\ AdoptionHolds(rc, t)
            /\ FindNewOk => result.rc = <<rc>>

\* C10 as amended: find_new returns a controller with R's template, which
\* is R itself when no controller listed before R has the same template.
C10_RollbackRoundTrip ==
    \A rc \in {adopted[i] : i \in 1..Len(adopted)} :
        \A t \in FingerprintedFrom(rc) :
            /\ AdoptionHolds(rc, t)
            /\ FindNewOk =>
                  /\ result.rc # <<>>
                  /\ result.rc[1].template = rc.template
                  /\ (\A i \in 1..Len(rcList) :
                         rcList[i].template = rc.template =>
                             \E k \in 1..i : rcList[k] = rc)
                     => result.rc = <<rc>>

\* find_new returned the adopted controller, whose template carries the
\* fingerprint label that the adoption stripped
C10_Witness ==
    /\ adopted # <<>>
    /\ FingerprintedFrom(adopted[1]) # {}
    /\ deployment.uniqueLabelKey = HashKey
    /\ HashKey \in DOMAIN adopted[1].template[1].labels
    /\ HashKey \notin DOMAIN deployment.template.labels
    /\ FindNewOk
    /\ result.rc = adopted

(***************************************************************************)
(* Properties of the listing failures.                                     *)
(***************************************************************************)
Failed(calls) == \E i \in 1..Len(calls) : calls[i].failed

\* the failed call is the last one made
StopsAtFailure(calls) == \A i \in 1..Len(calls) : calls[i].failed => i = Len(calls)

\* C5: a failing listing call is propagated as an error with no partial
\* result and no retry: classify returns an error and two empty sets,
\* find_new an error and no controller, ready_count an error and count 0,
\* also when earlier controllers' pods were listed successfully.
C5_ListingFailurePropagates ==
    /\ result.op = "GetOldRCsFromLists" =>
          /\ Failed(result.calls) <=> result.err # NoError
          /\ StopsAtFailure(result.calls)
          /\ Len(result.calls) <= 2
          /\ \A i, j \in 1..Len(result.calls) :
                result.calls[i].fn = result.calls[j].fn => i = j
          /\ result.err # NoError =>
                result.requiredRCs = EmptyBag /\ result.allRCs = EmptyBag
    /\ result.op = "GetNewRCFromList" =>
          /\ Failed(result.calls) <=> result.err # NoError
          /\ Len(result.calls) = 1
          /\ result.err # NoError => result.rc = <<>>
    /\ result.op = "GetAvailablePodsForRCs" =>
          /\ Failed(result.calls) <=> result.err # NoError
          /\ StopsAtFailure(result.calls)
          /\ Len(result.calls) <= Len(rcList)
          /\ \A i \in 1..Len(result.calls) :
                result.calls[i].options =
                    [namespace |-> rcList[i].namespace, selector |-> rcList[i].selector]
          /\ result.err # NoError => result.count = 0

\* the listing for the second controller failed after the first
\* controller's listing had returned a ready pod
C5_Witness ==
    /\ result.op = "GetAvailablePodsForRCs"
    /\ result.err # NoError
    /\ Len(result.calls) = 2
    /\ \E j \in 1..Len(clusterPods) :
          /\ clusterPods[j].namespace = rcList[1].namespace
          /\ SelectorMatches(rcList[1].selector, clusterPods[j].labels)
          /\ IsPodReady(clusterPods[j])
    /\ minReadySeconds <= 0

(***************************************************************************)
(* Properties of the count of available pods.                              *)
(***************************************************************************)
RECURSIVE SeqSum(_)
SeqSum(ns) == IF ns = <<>> THEN 0 ELSE Head(ns) + SeqSum(Tail(ns))

\* the pods listed for the selector of the i-th controller
ListedFor(i) ==
    {j \in 1..Len(clusterPods) :
        /\ clusterPods[j].namespace = rcList[i].namespace
        /\ SelectorMatches(rcList[i].selector, clusterPods[j].labels)}

AllListed == UNION {ListedFor(i) : i \in 1..Len(rcList)}

\* the sum over the controllers of the listed pods that satisfy Counts
SumOverRCs(Counts(_)) ==
    SeqSum([i \in 1..Len(rcList) |->
               Cardinality({j \in ListedFor(i) : Counts(clusterPods[j])})])

ReadyConditionOf(pod) ==
    pod.conditions[CHOOSE i \in 1..Len(pod.conditions) :
                       pod.conditions[i].type = PodReady]

ReadyWithZeroTime(pod) ==
    IsPodReady(pod) /\ ReadyConditionOf(pod).lastTransitionTime = ZeroTime

ReadyWithSetTime(pod) ==
    IsPodReady(pod) /\ ReadyConditionOf(pod).lastTransitionTime # ZeroTime

AvailableOk == result.op = "GetAvailablePodsForRCs" /\ result.err = NoError

\* C9: with min_ready_seconds <= 0 and every listing successful, the count
\* is the sum over the controllers of the listed pods whose state is ready,
\* whatever their transition timestamps and the order of the controllers.
C9_CountsReadyPodsWithoutGracePeriod ==
    (AvailableOk /\ minReadySeconds <= 0) => result.count = SumOverRCs(IsPodReady)

\* two controllers were counted, a ready pod with a zero transition time
\* and a pod that is not ready among their pods
C9_Witness ==
    /\ AvailableOk
    /\ minReadySeconds <= 0
    /\ Len(rcList) = 2
    /\ result.count >= 2
    /\ \E j \in AllListed : ReadyWithZeroTime(clusterPods[j])
    /\ \E j \in AllListed : ~IsPodReady(clusterPods[j])

\* C2 as stated: a ready pod whose Ready condition has a zero transition
\* time is counted for every min_ready_seconds.
C2_ZeroTimeCountedForEveryGracePeriod ==
    (AvailableOk /\ \A j \in AllListed : ReadyWithZeroTime(clusterPods[j]))
        => result.count = SumOverRCs(ReadyWithZeroTime)

\* C2 as amended: such a pod is counted exactly when min_ready_seconds <= 0.
C2_ZeroTimeCountedOnlyWithoutGracePeriod ==
    (AvailableOk /\ \A j \in AllListed : ReadyWithZeroTime(clusterPods[j]))
        => result.count = IF minReadySeconds <= 0
                          THEN SumOverRCs(ReadyWithZeroTime) ELSE 0

\* a ready pod with a zero transition time was listed and not counted
C2_Witness ==
    /\ AvailableOk
    /\ minReadySeconds > 0
    /\ AllListed # {}
    /\ \A j \in AllListed : ReadyWithZeroTime(clusterPods[j])
    /\ result.count = 0

GracePeriodOverAt(pod, now) ==
    ReadyConditionOf(pod).lastTransitionTime + minReadySeconds * Second <= now

GracePeriodOverBefore(pod, now) ==
    ReadyConditionOf(pod).lastTransitionTime + minReadySeconds * Second < now

SetTimeCase ==
    /\ AvailableOk
    /\ minReadySeconds > 0
    /\ AllListed # {}
    /\ \A j \in AllListed : ReadyWithSetTime(clusterPods[j])

\* C4 as stated: with m > 0, a ready pod with transition time t is counted
\* exactly when t + m <= now.
C4_CountedFromTheEndOfTheGracePeriod ==
    SetTimeCase =>
        result.count = SumOverRCs(LAMBDA pod : GracePeriodOverAt(pod, result.clock[1]))

\* C4 as amended: it is counted exactly when t + m < now.
C4_CountedAfterTheEndOfTheGracePeriod ==
    SetTimeCase =>
        result.count = SumOverRCs(LAMBDA pod : GracePeriodOverBefore(pod, result.clock[1]))

\* the clock read the very instant t + m and the pod was not counted
C4_Witness ==
    /\ SetTimeCase
    /\ result.clock = <<TransitionTime + minReadySeconds * Second>>
    /\ result.count = 0

(***************************************************************************)
(* Properties of Revision.                                                 *)
(***************************************************************************)
Digits(s) == IF s # <<>> /\ s[1] \in {"+", "-"} THEN Tail(s) ELSE s

\* the magnitude a decimal string denotes
Magnitude(s) == BigNorm([i \in 1..Len(Digits(s)) |-> DigitValue(Digits(s)[i])])

\* optional sign, one digit at least, and a value within [-2^63, 2^63 - 1]
WellFormed(s) ==
    /\ Digits(s) # <<>>
    /\ \A i \in 1..Len(Digits(s)) : Digits(s)[i] \in {DigitChars[k] : k \in 1..10}
    /\ IF s[1] = "-" THEN ~BigLess(Cutoff63, Magnitude(s))
       ELSE BigLess(Magnitude(s), Cutoff63)

RECURSIVE Power10(_)
Power10(n) == IF n = 0 THEN 1 ELSE 10 * Power10(n - 1)

\* the integer a short numeral stands for
NumeralValue(v) ==
    LET m == SeqSum([i \in 1..Len(v.mag) |-> v.mag[i] * Power10(Len(v.mag) - i)])
    IN  IF v.neg THEN 0 - m ELSE m

\* the integer a short well-formed decimal string denotes
Denoted(s) ==
    LET d == Digits(s)
        m == SeqSum([i \in 1..Len(d) |-> DigitValue(d[i]) * Power10(Len(d) - i)])
    IN  IF s[1] = "-" THEN 0 - m ELSE m

\* C6: Revision returns 0 and no error when the annotation is absent, the
\* parsed value and no error when it is a well-formed base-10 64-bit
\* integer, and an error when it is present and not such an integer.
C6_RevisionParsesTheAnnotation ==
    result.op = "Revision" =>
        \A i \in 1..Len(rcList) :
            LET a == rcList[i].annotations
            IN  IF RevisionAnnotation \notin DOMAIN a
                THEN result.err = NoError /\ result.value = [neg |-> FALSE, mag |-> <<0>>]
                ELSE IF WellFormed(a[RevisionAnnotation])
                THEN /\ result.err = NoError
                     /\ result.value.mag = Magnitude(a[RevisionAnnotation])
                     /\ result.value.neg =
                            (a[RevisionAnnotation][1] = "-" /\ result.value.mag # <<0>>)
                     /\ Len(a[RevisionAnnotation]) <= MaxLen =>
                            NumeralValue(result.value) = Denoted(a[RevisionAnnotation])
                ELSE result.err # NoError

\* the largest 64-bit integer was parsed
C6_Witness ==
    /\ result.op = "Revision"
    /\ result.err = NoError
    /\ result.value = [neg |-> FALSE, mag |-> MaxInt64]

====
